---------------------------- MODULE Spec2Model ----------------------------
(***************************************************************************)
(* A model of CodeExamples.py: the Candidate value type, the three local   *)
(* search drivers (hill_climb, simulated_annealing, tabu_search) and the   *)
(* selection, crossover and mutation operators.                            *)
(*                                                                         *)
(* Every driver is a state machine whose actions are the iterations of its *)
(* loop; every random draw of the code (random.randint, random.random,     *)
(* random.uniform, random.sample, random.choice, random.shuffle) is an     *)
(* existentially quantified input of the action that makes it.             *)
(***************************************************************************)
EXTENDS Integers, Sequences, FiniteSets, TLC

(***************************************************************************)
(* Bounds of the model.                                                    *)
(***************************************************************************)
\* genes are drawn from 0..MaxGene (the code draws from 0..100)
MaxGene == 1
\* chromosomes of the local-search drivers have 1..MaxChromLen genes
MaxChromLen == 2
\* iteration budgets (max_iterations) range over 0..MaxIterations
MaxIterations == 2

\* Python's None, where the code holds a Candidate or None
None == [none |-> TRUE]

Range(s) == {s[i] : i \in 1..Len(s)}

RECURSIVE SumSeq(_)
SumSeq(s) == IF s = <<>> THEN 0 ELSE s[1] + SumSeq(Tail(s))

Genes == 0..MaxGene

Chromosomes == UNION {[1..n -> Genes] : n \in 1..MaxChromLen}

(***************************************************************************)
(* Candidate (class Candidate): a chromosome and a stored fitness.         *)
(***************************************************************************)
Candidate(chromosome, fitness) == [chromosome |-> chromosome, fitness |-> fitness]

(***************************************************************************)
(* The caller-supplied fitness_function.  "sum" is the objective of the    *)
(* repository's own drivers (test_HC, test_SA, test_TS); the others stand  *)
(* for arbitrary callers.  "noisy" is an objective that is not a function  *)
(* of the chromosome alone: two evaluations of one chromosome may differ.  *)
(* FitnessValues is the set of values one evaluation may return.           *)
(***************************************************************************)
Objectives == {"sum", "negsum", "first", "noisy"}

DeterministicObjectives == {"sum", "negsum", "first"}

FitnessValues(objective, chromosome) ==
    CASE objective = "sum"    -> {SumSeq(chromosome)}
      [] objective = "negsum" -> {0 - SumSeq(chromosome)}
      [] objective = "first"  -> {chromosome[1]}
      [] objective = "noisy"  -> {SumSeq(chromosome), SumSeq(chromosome) + 1}

\* the candidates Candidate.calculate_fitness can leave behind for a chromosome
Evaluated(objective, chromosome) ==
    {Candidate(chromosome, f) : f \in FitnessValues(objective, chromosome)}

\* the single-gene perturbation shared by the three drivers:
\* neighbor_chromosome = chromosome[:]; neighbor_chromosome[index] = value
Perturb(chromosome, index, value) == [chromosome EXCEPT ![index] = value]

NeighborChromosomes(chromosome) ==
    {Perturb(chromosome, i, v) : i \in 1..Len(chromosome), v \in Genes}

(***************************************************************************)
(* Python floats.  A float is [m |-> mantissa, e |-> exponent], the number *)
(* m * 2^e, with m odd (or m = 0 and e = 0).  The code computes in IEEE-754 *)
(* binary64 (53 significant bits, round to nearest, ties to even); the     *)
(* model keeps the rounding rule and shrinks the significand to MantBits   *)
(* bits.  The exponent is unbounded: no overflow or underflow.             *)
(***************************************************************************)
\* significant bits of a float (53 in the code's binary64)
MantBits == 3

RECURSIVE Pow2(_)
Pow2(n) == IF n <= 0 THEN 1 ELSE 2 * Pow2(n - 1)

RECURSIVE BitLen(_)
BitLen(n) == IF n = 0 THEN 0 ELSE 1 + BitLen(n \div 2)

Abs(n) == IF n < 0 THEN 0 - n ELSE n

RECURSIVE FNorm(_, _)
FNorm(m, e) ==
    IF m = 0 THEN [m |-> 0, e |-> 0]
    ELSE IF m % 2 = 0 THEN FNorm(m \div 2, e + 1)
    ELSE [m |-> m, e |-> e]

\* round the magnitude n * 2^e to MantBits significant bits, ties to even
RoundMagnitude(n, e) ==
    IF n < Pow2(MantBits) THEN [m |-> n, e |-> e]
    ELSE LET s    == BitLen(n) - MantBits
             q    == n \div Pow2(s)
             r    == n % Pow2(s)
             half == Pow2(s - 1)
             up   == r > half \/ (r = half /\ q % 2 = 1)
         IN  [m |-> IF up THEN q + 1 ELSE q, e |-> e + s]

\* the float nearest to the exact number m * 2^e
Float(m, e) ==
    LET r == RoundMagnitude(Abs(m), e)
    IN  FNorm(IF m < 0 THEN 0 - r.m ELSE r.m, r.e)

\* float(n) of a Python int
FromInt(n) == Float(n, 0)

FMinExp(a, b) == IF a.e < b.e THEN a.e ELSE b.e

\* the mantissa of a at the common exponent e <= a.e (exact)
FScaled(a, e) == a.m * Pow2(a.e - e)

FAdd(a, b) == Float(FScaled(a, FMinExp(a, b)) + FScaled(b, FMinExp(a, b)), FMinExp(a, b))

FSub(a, b) == Float(FScaled(a, FMinExp(a, b)) - FScaled(b, FMinExp(a, b)), FMinExp(a, b))

FMul(a, b) == Float(a.m * b.m, a.e + b.e)

\* a / b for b # 0, correctly rounded: the quotient is computed to
\* 2 * MantBits + 2 extra bits and a sticky bit records a remainder
FDiv(a, b) ==
    LET k      == 2 * MantBits + 2
        num    == Abs(a.m) * Pow2(k)
        q      == num \div Abs(b.m)
        sticky == IF num % Abs(b.m) = 0 THEN 0 ELSE 1
        sign   == IF (a.m < 0) = (b.m < 0) THEN 1 ELSE 0 - 1
    IN  Float(sign * (2 * q + sticky), a.e - b.e - k - 1)

FLess(a, b) == FScaled(a, FMinExp(a, b)) < FScaled(b, FMinExp(a, b))

FZero == FromInt(0)

\* random.random(): k / 2^MantBits for k in 0..2^MantBits - 1, as CPython
\* returns k / 2^53 for a 53-bit k
RandomUnit == {Float(k, 0 - MantBits) : k \in 0..(Pow2(MantBits) - 1)}

\* random.uniform(a, b) is a + (b - a) * random.random()
Uniform(a, b, u) == FAdd(a, FMul(FSub(b, a), u))

VARIABLES
    \* hill_climb
    hc_pc, hc_candidate, hc_iteration, hc_max_iterations, hc_objective,
    hc_initial_fitness,
    \* simulated_annealing
    sa_pc, sa_candidate, sa_best_candidate, sa_current_temperature,
    sa_cooling_rate, sa_min_temperature, sa_objective, sa_iterations,
    sa_visited_max,
    \* tabu_search
    ts_pc, ts_current_candidate, ts_best_candidate, ts_tabu_list,
    ts_tabu_list_size, ts_iteration, ts_max_iterations, ts_neighborhood_size,
    ts_objective,
    \* tabu_search, the last iteration's selection (lines 238-248)
    ts_best_neighbor, ts_best_neighbor_tabu, ts_best_fitness_before,
    ts_tabu_rejected, ts_tabu_admitted, ts_moved,
    \* the selection operators
    sel_pc, sel_operator, sel_generation, sel_tournament_size, sel_num_parents,
    sel_fraction, sel_parent1, sel_parent2, sel_parents, sel_outcome,
    \* the state of the random module's generator, which every draw changes:
    \* only whether the number of draws so far is odd is kept
    sel_random_state,
    \* the crossover and mutation operators
    op_pc, op_operator, op_parent1, op_parent2, op_n_points, op_alpha,
    op_start, op_end, op_offspring, op_outcome,
    \* the tabu memory: deque(maxlen=tabu_list_size) of tabu_search, and every
    \* chromosome appended to it so far, in order
    tm_tabu_list_size, tm_tabu_list, tm_appended

hcVars == <<hc_pc, hc_candidate, hc_iteration, hc_max_iterations, hc_objective,
            hc_initial_fitness>>

saVars == <<sa_pc, sa_candidate, sa_best_candidate, sa_current_temperature,
            sa_cooling_rate, sa_min_temperature, sa_objective, sa_iterations,
            sa_visited_max>>

tsVars == <<ts_pc, ts_current_candidate, ts_best_candidate, ts_tabu_list,
            ts_tabu_list_size, ts_iteration, ts_max_iterations,
            ts_neighborhood_size, ts_objective, ts_best_neighbor,
            ts_best_neighbor_tabu, ts_best_fitness_before, ts_tabu_rejected,
            ts_tabu_admitted, ts_moved>>

selVars == <<sel_pc, sel_operator, sel_generation, sel_tournament_size,
             sel_num_parents, sel_fraction, sel_parent1, sel_parent2, sel_parents,
             sel_outcome, sel_random_state>>

opVars == <<op_pc, op_operator, op_parent1, op_parent2, op_n_points, op_alpha,
            op_start, op_end, op_offspring, op_outcome>>

tmVars == <<tm_tabu_list_size, tm_tabu_list, tm_appended>>

vars == <<hcVars, saVars, tsVars, selVars, opVars, tmVars>>

\* a driver or operator that is not the one being run
HCIdle ==
    /\ hc_pc = "idle"
    /\ hc_candidate = None
    /\ hc_iteration = 0
    /\ hc_max_iterations = 0
    /\ hc_objective = "idle"
    /\ hc_initial_fitness = 0

SAIdle ==
    /\ sa_pc = "idle"
    /\ sa_candidate = None
    /\ sa_best_candidate = None
    /\ sa_current_temperature = FZero
    /\ sa_cooling_rate = FZero
    /\ sa_min_temperature = FZero
    /\ sa_objective = "idle"
    /\ sa_iterations = 0
    /\ sa_visited_max = 0

TSIdle ==
    /\ ts_pc = "idle"
    /\ ts_current_candidate = None
    /\ ts_best_candidate = None
    /\ ts_tabu_list = <<>>
    /\ ts_tabu_list_size = 0
    /\ ts_iteration = 0
    /\ ts_max_iterations = 0
    /\ ts_neighborhood_size = 0
    /\ ts_objective = "idle"
    /\ ts_best_neighbor = None
    /\ ts_best_neighbor_tabu = FALSE
    /\ ts_best_fitness_before = 0
    /\ ts_tabu_rejected = FALSE
    /\ ts_tabu_admitted = FALSE
    /\ ts_moved = FALSE

SelIdle ==
    /\ sel_pc = "idle"
    /\ sel_operator = "idle"
    /\ sel_generation = <<>>
    /\ sel_tournament_size = 0
    /\ sel_num_parents = 0
    /\ sel_fraction = FZero
    /\ sel_parent1 = 0
    /\ sel_parent2 = 0
    /\ sel_parents = <<>>
    /\ sel_outcome = "idle"
    /\ sel_random_state = FALSE

OpIdle ==
    /\ op_pc = "idle"
    /\ op_operator = "idle"
    /\ op_parent1 = <<>>
    /\ op_parent2 = <<>>
    /\ op_n_points = 0
    /\ op_alpha = FZero
    /\ op_start = 0
    /\ op_end = 0
    /\ op_offspring = <<>>
    /\ op_outcome = "idle"

TMIdle ==
    /\ tm_tabu_list_size = 0
    /\ tm_tabu_list = <<>>
    /\ tm_appended = <<>>

(***************************************************************************)
(* hill_climb                                                              *)
(***************************************************************************)
\* line 79: if neighbor.fitness > candidate.fitness
HillClimbAcceptsMutant(neighbor, candidate) == neighbor.fitness # candidate.fitness

HillClimbAccepts(neighbor, candidate) == neighbor.fitness > candidate.fitness

\* the state after line 64: the initial candidate has been evaluated
HCInit ==
    /\ SAIdle /\ TSIdle /\ SelIdle /\ OpIdle /\ TMIdle
    /\ hc_objective \in Objectives
    /\ hc_max_iterations \in 0..MaxIterations
    /\ \E chromosome \in Chromosomes :
          hc_candidate \in Evaluated(hc_objective, chromosome)
    /\ hc_initial_fitness = hc_candidate.fitness
    /\ hc_iteration = 0
    /\ hc_pc = "loop"

\* one iteration of the for loop, lines 66-80
HillClimbIteration ==
    /\ hc_pc = "loop"
    /\ hc_iteration < hc_max_iterations
    /\ \E neighbor_chromosome \in NeighborChromosomes(hc_candidate.chromosome) :
         \E neighbor \in Evaluated(hc_objective, neighbor_chromosome) :
            hc_candidate' = IF HillClimbAccepts(neighbor, hc_candidate)
                            THEN neighbor ELSE hc_candidate
    /\ hc_iteration' = hc_iteration + 1
    /\ UNCHANGED <<hc_pc, hc_max_iterations, hc_objective, hc_initial_fitness>>
    /\ UNCHANGED <<saVars, tsVars, selVars, opVars, tmVars>>

\* line 82: return candidate
HillClimbReturn ==
    /\ hc_pc = "loop"
    /\ hc_iteration = hc_max_iterations
    /\ hc_pc' = "done"
    /\ UNCHANGED <<hc_candidate, hc_iteration, hc_max_iterations, hc_objective,
                   hc_initial_fitness>>
    /\ UNCHANGED <<saVars, tsVars, selVars, opVars, tmVars>>

HCNext == HillClimbIteration \/ HillClimbReturn

SpecHC == HCInit /\ [][HCNext]_vars

\* C1: hill_climb never returns a candidate whose fitness is lower than the
\* fitness the objective gave the initial candidate (line 64).
C1_HillClimbNeverRegresses ==
    hc_pc = "done" => hc_candidate.fitness >= hc_initial_fitness

\* a run that returned after at least one iteration, having moved uphill
C1_Witness ==
    /\ hc_pc = "done"
    /\ hc_objective \in DeterministicObjectives
    /\ hc_iteration > 0
    /\ hc_candidate.fitness > hc_initial_fitness

(***************************************************************************)
(* simulated_annealing                                                     *)
(*                                                                         *)
(* The callers modelled pass initial_temperature > 0 and min_temperature   *)
(* > 0, so the temperature is positive inside the loop and                 *)
(* fitness_diff / current_temperature is defined.                          *)
(***************************************************************************)
\* initial_temperature ranges over 1..MaxTemperature
MaxTemperature == 2

InitialTemperatures == {FromInt(t) : t \in 1..MaxTemperature}

\* min_temperature: 1/2 or 1
MinTemperatures == {Float(1, 0 - 1), FromInt(1)}

\* cooling rates inside (0, 1): 1/2, 1/4 and 2^-(MantBits+1), the largest
\* rate for which the float 1 - cooling_rate is 1.0
CoolingRatesInside == {Float(1, 0 - 1), Float(1, 0 - 2), Float(1, 0 - (MantBits + 1))}

\* cooling rates outside (0, 1): -1/2, 0, 1, 3/2
CoolingRatesOutside == {Float(0 - 1, 0 - 1), FZero, FromInt(1), Float(3, 0 - 1)}

CoolingRates == CoolingRatesInside \cup CoolingRatesOutside

\* a run with a negative cooling rate is followed while the temperature is
\* below this cap
TemperatureCap == FromInt(4 * MaxTemperature)

Max(a, b) == IF a > b THEN a ELSE b

Min(a, b) == IF a < b THEN a ELSE b

\* a loop that leaves the temperature as it is
CoolKeepsTemperature(current_temperature, cooling_rate) == current_temperature

\* line 157: current_temperature *= (1 - cooling_rate)
Cool(current_temperature, cooling_rate) ==
    FMul(current_temperature, FSub(FromInt(1), cooling_rate))

\* line 149: fitness_diff > 0 or random.random() < math.exp(fitness_diff /
\* current_temperature).  The temperature is positive here.  With
\* fitness_diff = 0 the exponential is 1.0 and random.random() < 1.0 always
\* holds; with fitness_diff < 0 the exponential is a float in [0, 1] and the
\* draw decides.
AcceptanceOutcomes(fitness_diff) ==
    IF fitness_diff >= 0 THEN {TRUE} ELSE BOOLEAN

\* lines 153-154
SABestAfterAcceptMutant(neighbor, best_candidate) == neighbor

SABestAfterAccept(neighbor, best_candidate) ==
    IF neighbor.fitness > best_candidate.fitness THEN neighbor ELSE best_candidate

\* the state after line 131
SAInit ==
    /\ HCIdle /\ TSIdle /\ SelIdle /\ OpIdle /\ TMIdle
    /\ sa_objective \in Objectives
    /\ \E chromosome \in Chromosomes :
          sa_candidate \in Evaluated(sa_objective, chromosome)
    /\ sa_best_candidate = sa_candidate
    /\ sa_current_temperature \in InitialTemperatures
    /\ sa_cooling_rate \in CoolingRates
    /\ sa_min_temperature \in MinTemperatures
    /\ sa_iterations = 0
    /\ sa_visited_max = sa_candidate.fitness
    /\ sa_pc = "loop"

\* one iteration of the while loop, lines 133-157.  sa_iterations counts the
\* iterations up to MaxIterations; sa_visited_max is the largest fitness of
\* any candidate that has been the current one.
SAIteration ==
    /\ sa_pc = "loop"
    /\ FLess(sa_min_temperature, sa_current_temperature)
    /\ FLess(sa_current_temperature, TemperatureCap)
    /\ \E neighbor_chromosome \in NeighborChromosomes(sa_candidate.chromosome) :
         \E neighbor \in Evaluated(sa_objective, neighbor_chromosome) :
           \E accept \in AcceptanceOutcomes(neighbor.fitness - sa_candidate.fitness) :
              IF accept
              THEN /\ sa_candidate' = neighbor
                   /\ sa_best_candidate' = SABestAfterAccept(neighbor, sa_best_candidate)
                   /\ sa_visited_max' = Max(sa_visited_max, neighbor.fitness)
              ELSE UNCHANGED <<sa_candidate, sa_best_candidate, sa_visited_max>>
    /\ sa_current_temperature' = Cool(sa_current_temperature, sa_cooling_rate)
    /\ sa_iterations' = Min(sa_iterations + 1, MaxIterations)
    /\ UNCHANGED <<sa_pc, sa_cooling_rate, sa_min_temperature, sa_objective>>
    /\ UNCHANGED <<hcVars, tsVars, selVars, opVars, tmVars>>

\* line 159: return best_candidate
SAReturn ==
    /\ sa_pc = "loop"
    /\ ~FLess(sa_min_temperature, sa_current_temperature)
    /\ sa_pc' = "done"
    /\ UNCHANGED <<sa_candidate, sa_best_candidate, sa_current_temperature,
                   sa_cooling_rate, sa_min_temperature, sa_objective,
                   sa_iterations, sa_visited_max>>
    /\ UNCHANGED <<hcVars, tsVars, selVars, opVars, tmVars>>

SANext == SAIteration \/ SAReturn

SpecSA == SAInit /\ [][SANext]_vars

\* C2: at every iteration boundary of simulated_annealing and at return,
\* best_candidate.fitness is at least the fitness of every candidate that
\* has been the current one.
C2_BestDominatesVisited == sa_best_candidate.fitness >= sa_visited_max

\* a run that returned after accepting a downhill move: the current
\* candidate is then worse than the best
C2_Witness ==
    /\ sa_pc = "done"
    /\ sa_iterations > 0
    /\ sa_candidate.fitness < sa_best_candidate.fitness
    /\ sa_visited_max > sa_candidate.fitness

\* C9: simulated_annealing called with a cooling_rate outside (0, 1) fails
\* at call time: it executes no iteration and does not return a candidate.
C9_BadCoolingRateFailsFast ==
    sa_cooling_rate \in CoolingRatesOutside
        => (sa_iterations = 0 /\ sa_pc # "done")

\* line 133 is true, so that an iteration can be executed (in every such
\* state some neighbor differs from the current candidate and is accepted)
SAIterationEnabled ==
    /\ sa_pc = "loop"
    /\ FLess(sa_min_temperature, sa_current_temperature)
    /\ FLess(sa_current_temperature, TemperatureCap)

\* The objective has no part in the cooling: the runs followed for
\* termination are those on the objective sum.
SAFairInit == SAInit /\ sa_objective = "sum"

\* simulated_annealing is one synchronous call: while the return can be
\* executed it is, and while an iteration can be executed it is.  The second
\* is the weak fairness of SAIteration, with its enabling condition written
\* as the state predicate SAIterationEnabled.
SpecSAFair ==
    /\ SAFairInit
    /\ [][SANext]_vars
    /\ WF_vars(SAReturn)
    /\ ([]<>(~SAIterationEnabled) \/ []<><<SAIteration>>_vars)

\* line 133 is false: temperature <= min_temperature
LoopExits ==
    /\ sa_pc = "done"
    /\ ~FLess(sa_min_temperature, sa_current_temperature)

\* the cooling rates in (0, 1) whose float 1 - cooling_rate is below 1.0
CoolingRatesThatCool ==
    {c \in CoolingRatesInside : FLess(FSub(FromInt(1), c), FromInt(1))}

\* C12 as stated: for every cooling_rate in (0, 1) the loop of
\* simulated_annealing eventually exits, with temperature <= min_temperature.
C12_AnnealingTerminatesAnyRate ==
    (sa_pc = "loop" /\ sa_cooling_rate \in CoolingRatesInside) ~> LoopExits

\* C12 amended: for every cooling_rate in (0, 1) whose float 1 - cooling_rate
\* is below 1.0, every iteration multiplies the temperature by
\* (1 - cooling_rate) whether or not the neighbor was accepted, the loop
\* eventually exits, and at exit temperature <= min_temperature.
C12_AnnealingTerminates ==
    /\ [][(sa_pc = "loop" /\ sa_pc' = "loop")
            => sa_current_temperature' =
                  FMul(sa_current_temperature, FSub(FromInt(1), sa_cooling_rate))]_vars
    /\ (/\ sa_pc = "loop"
        /\ sa_cooling_rate \in CoolingRatesThatCool) ~> LoopExits

\* a run with cooling_rate 1/4 that returned after two iterations or more,
\* the last of which kept the current candidate
C12_Witness ==
    /\ LoopExits
    /\ sa_cooling_rate = Float(1, 0 - 2)
    /\ sa_iterations >= 2
    /\ sa_candidate = sa_best_candidate

(***************************************************************************)
(* tabu_search                                                             *)
(***************************************************************************)
\* tabu_list_size ranges over 0..MaxTabuSize
MaxTabuSize == 2
\* neighborhood_size ranges over 0..MaxNeighborhood
MaxNeighborhood == 1

\* deque(maxlen = tabu_list_size).append(chromosome), lines 215, 218, 251: a
\* deque of maxlen 0 stays empty, a full one drops its oldest entry
TabuAppendMutant(tabu_list, chromosome, tabu_list_size) ==
    IF Len(tabu_list) >= tabu_list_size THEN tabu_list
    ELSE Append(tabu_list, chromosome)

\* a memory that, when full, evicts its newest entry instead of its oldest
TabuAppendEvictsNewest(tabu_list, chromosome, tabu_list_size) ==
    IF tabu_list_size = 0 THEN tabu_list
    ELSE IF Len(tabu_list) = tabu_list_size
         THEN Append(SubSeq(tabu_list, 1, Len(tabu_list) - 1), chromosome)
    ELSE Append(tabu_list, chromosome)

TabuAppend(tabu_list, chromosome, tabu_list_size) ==
    IF tabu_list_size = 0 THEN tabu_list
    ELSE IF Len(tabu_list) = tabu_list_size THEN Append(Tail(tabu_list), chromosome)
    ELSE Append(tabu_list, chromosome)

\* tuple(neighbor.chromosome) in tabu_list
IsTabu(chromosome, tabu_list) == chromosome \in Range(tabu_list)

\* line 240: not in tabu_list, or the aspiration criterion
AdmissibleMutant(neighbor, tabu_list, best_candidate) ==
    \/ ~IsTabu(neighbor.chromosome, tabu_list)
    \/ neighbor.fitness >= best_candidate.fitness

Admissible(neighbor, tabu_list, best_candidate) ==
    \/ ~IsTabu(neighbor.chromosome, tabu_list)
    \/ neighbor.fitness > best_candidate.fitness

\* lines 238-242: the first admissible neighbor of maximum fitness, or None.
\* best_neighbor is the value carried into the rest of the loop.
RECURSIVE SelectBestNeighbor(_, _, _, _)
SelectBestNeighbor(neighborhood, best_neighbor, tabu_list, best_candidate) ==
    IF neighborhood = <<>> THEN best_neighbor
    ELSE LET neighbor == Head(neighborhood)
             take == /\ Admissible(neighbor, tabu_list, best_candidate)
                     /\ \/ best_neighbor = None
                        \/ neighbor.fitness > best_neighbor.fitness
         IN  SelectBestNeighbor(Tail(neighborhood),
                                IF take THEN neighbor ELSE best_neighbor,
                                tabu_list, best_candidate)

\* a search that moves to whatever neighbor was selected
TSMovesToAnyNeighbor(best_neighbor, current_candidate) == best_neighbor # None

\* line 245: if best_neighbor and best_neighbor.fitness > current_candidate.fitness
TSMoves(best_neighbor, current_candidate) ==
    /\ best_neighbor # None
    /\ best_neighbor.fitness > current_candidate.fitness

\* a search that never replaces best_candidate
TSBestKept(best_neighbor, best_candidate) == best_candidate

\* lines 247-248, reached after a move: the new best_candidate
TSBestAfterMove(best_neighbor, best_candidate) ==
    IF best_neighbor.fitness > best_candidate.fitness
    THEN best_neighbor ELSE best_candidate

\* lines 224-235: the neighbors one draw can produce
NeighborCandidates(objective, chromosome) ==
    UNION {Evaluated(objective, c) : c \in NeighborChromosomes(chromosome)}

\* the state after line 218
TSInit ==
    /\ HCIdle /\ SAIdle /\ SelIdle /\ OpIdle /\ TMIdle
    /\ ts_objective \in Objectives
    /\ ts_tabu_list_size \in 0..MaxTabuSize
    /\ ts_max_iterations \in {0, MaxIterations}
    /\ ts_neighborhood_size \in 0..MaxNeighborhood
    /\ \E chromosome \in Chromosomes :
          ts_current_candidate \in Evaluated(ts_objective, chromosome)
    /\ ts_best_candidate = ts_current_candidate
    /\ ts_tabu_list = TabuAppend(<<>>, ts_current_candidate.chromosome, ts_tabu_list_size)
    /\ ts_iteration = 0
    /\ ts_best_neighbor = None
    /\ ts_best_neighbor_tabu = FALSE
    /\ ts_best_fitness_before = ts_best_candidate.fitness
    /\ ts_tabu_rejected = FALSE
    /\ ts_tabu_admitted = FALSE
    /\ ts_moved = FALSE
    /\ ts_pc = "loop"

\* one iteration of the for loop, lines 221-251
TSIteration ==
    /\ ts_pc = "loop"
    /\ ts_iteration < ts_max_iterations
    /\ \E neighborhood \in [1..ts_neighborhood_size ->
             NeighborCandidates(ts_objective, ts_current_candidate.chromosome)] :
         LET best_neighbor == SelectBestNeighbor(neighborhood, None, ts_tabu_list,
                                                 ts_best_candidate)
             move == TSMoves(best_neighbor, ts_current_candidate)
             current == IF move THEN best_neighbor ELSE ts_current_candidate
         IN  /\ ts_current_candidate' = current
             /\ ts_best_candidate' =
                   IF move THEN TSBestAfterMove(best_neighbor, ts_best_candidate)
                   ELSE ts_best_candidate
             /\ ts_tabu_list' = TabuAppend(ts_tabu_list, current.chromosome,
                                           ts_tabu_list_size)
             /\ ts_best_neighbor' = best_neighbor
             /\ ts_best_neighbor_tabu' =
                   /\ best_neighbor # None
                   /\ IsTabu(best_neighbor.chromosome, ts_tabu_list)
             /\ ts_tabu_rejected' =
                   \E i \in 1..ts_neighborhood_size :
                      /\ IsTabu(neighborhood[i].chromosome, ts_tabu_list)
                      /\ neighborhood[i].fitness <= ts_best_candidate.fitness
             /\ ts_tabu_admitted' =
                   \E i \in 1..ts_neighborhood_size :
                      /\ IsTabu(neighborhood[i].chromosome, ts_tabu_list)
                      /\ Admissible(neighborhood[i], ts_tabu_list, ts_best_candidate)
             /\ ts_moved' = move
    /\ ts_best_fitness_before' = ts_best_candidate.fitness
    /\ ts_iteration' = ts_iteration + 1
    /\ UNCHANGED <<ts_pc, ts_tabu_list_size, ts_max_iterations,
                   ts_neighborhood_size, ts_objective>>
    /\ UNCHANGED <<hcVars, saVars, selVars, opVars, tmVars>>

\* line 253: return best_candidate
TSReturn ==
    /\ ts_pc = "loop"
    /\ ts_iteration = ts_max_iterations
    /\ ts_pc' = "done"
    /\ UNCHANGED <<ts_current_candidate, ts_best_candidate, ts_tabu_list,
                   ts_tabu_list_size, ts_iteration, ts_max_iterations,
                   ts_neighborhood_size, ts_objective, ts_best_neighbor,
                   ts_best_neighbor_tabu, ts_best_fitness_before,
                   ts_tabu_rejected, ts_tabu_admitted, ts_moved>>
    /\ UNCHANGED <<hcVars, saVars, selVars, opVars, tmVars>>

TSNext == TSIteration \/ TSReturn

SpecTS == TSInit /\ [][TSNext]_vars

\* C3 as stated: at the end of every iteration, for every tabu_list_size >= 0,
\* the chromosome of current_candidate is in the tabu memory.
C3_CurrentInTabuAnySize ==
    ts_iteration > 0 => IsTabu(ts_current_candidate.chromosome, ts_tabu_list)

\* C3 amended: at the end of every iteration, for every tabu_list_size >= 1,
\* the chromosome of current_candidate is in the tabu memory.
C3_CurrentInTabu ==
    (ts_iteration > 0 /\ ts_tabu_list_size >= 1)
        => IsTabu(ts_current_candidate.chromosome, ts_tabu_list)

\* the end of an iteration that moved while the tabu memory was full
C3_Witness ==
    /\ ts_iteration >= 2
    /\ ts_moved
    /\ ts_tabu_list_size >= 1
    /\ Len(ts_tabu_list) = ts_tabu_list_size
    /\ ts_current_candidate.chromosome = ts_tabu_list[Len(ts_tabu_list)]

\* C4: a neighbor whose chromosome is in the tabu memory when best_neighbor
\* is selected is selected (and so moved to) only if its fitness is strictly
\* greater than best_candidate.fitness at that moment.
C4_TabuOnlyByAspiration ==
    (ts_best_neighbor # None /\ ts_best_neighbor_tabu)
        => ts_best_neighbor.fitness > ts_best_fitness_before

\* an iteration that moved to a neighbor whose chromosome was tabu
C4_Witness ==
    /\ ts_iteration > 0
    /\ ts_moved
    /\ ts_best_neighbor_tabu
    /\ ts_current_candidate = ts_best_neighbor

\* C14: best_candidate and current_candidate are the same candidate at the
\* start and at the end of every iteration of tabu_search and at return, and
\* the fitness of current_candidate never decreases.
C14_BestIsCurrent ==
    /\ ts_best_candidate = ts_current_candidate
    /\ [][/\ ts_best_candidate' = ts_current_candidate'
           /\ ts_current_candidate'.fitness >= ts_current_candidate.fitness]_vars

\* a run that returned after a last iteration that moved uphill
C14_Witness ==
    /\ ts_pc = "done"
    /\ ts_iteration >= 2
    /\ ts_moved
    /\ ts_current_candidate = ts_best_neighbor
    /\ ts_best_candidate.fitness > ts_best_fitness_before

\* C15: with a deterministic objective, every chromosome in the tabu memory
\* has a fitness <= best_candidate.fitness, no neighbor whose chromosome is in
\* the tabu memory satisfies the aspiration criterion, and so every neighbor
\* admitted at line 240 is admitted because it is not in the tabu memory.
C15_TabuNeverAspires ==
    ts_objective \in DeterministicObjectives =>
        /\ \A i \in 1..Len(ts_tabu_list) :
              \A fitness \in FitnessValues(ts_objective, ts_tabu_list[i]) :
                 fitness <= ts_best_candidate.fitness
        /\ ~ts_tabu_admitted
        /\ ~ts_best_neighbor_tabu

\* after a move, an iteration on a deterministic objective whose neighborhood
\* held a chromosome of the tabu memory, which was not admitted
C15_Witness ==
    /\ ts_objective \in DeterministicObjectives
    /\ ts_iteration >= 2
    /\ ts_tabu_rejected
    /\ ~ts_moved
    /\ ts_best_neighbor = None
    /\ Len(ts_tabu_list) >= 2

(***************************************************************************)
(* The tabu memory of tabu_search on its own: the deque of line 215 under  *)
(* any sequence of the appends of lines 218 and 251.                       *)
(***************************************************************************)
\* the memory receives at most MaxAppends chromosomes
MaxAppends == 4

\* tabu_search appends chromosomes of one length, that of the initial candidate
TabuChromosomes == {c \in Chromosomes : Len(c) = 2}

\* line 215: tabu_list = deque(maxlen=tabu_list_size)
TMInit ==
    /\ HCIdle /\ SAIdle /\ TSIdle /\ SelIdle /\ OpIdle
    /\ tm_tabu_list_size \in 0..MaxTabuSize
    /\ tm_tabu_list = <<>>
    /\ tm_appended = <<>>

\* lines 218 and 251: tabu_list.append(tuple(current_candidate.chromosome))
TMAppend ==
    /\ Len(tm_appended) < MaxAppends
    /\ \E chromosome \in TabuChromosomes :
          /\ tm_tabu_list' = TabuAppend(tm_tabu_list, chromosome, tm_tabu_list_size)
          /\ tm_appended' = Append(tm_appended, chromosome)
    /\ UNCHANGED tm_tabu_list_size
    /\ UNCHANGED <<hcVars, saVars, tsVars, selVars, opVars>>

TMNext == TMAppend

SpecTM == TMInit /\ [][TMNext]_vars

\* the last n elements of a sequence, in order
LastN(s, n) == SubSeq(s, Len(s) - n + 1, Len(s))

\* C11: the tabu memory is a bounded FIFO: it never holds more than
\* tabu_list_size entries, and after any number of appends it holds exactly
\* the most recent min(number of appends, tabu_list_size) appended
\* chromosomes, in the order of their appends.
C11_TabuBoundedFifo ==
    /\ Len(tm_tabu_list) <= tm_tabu_list_size
    /\ tm_tabu_list =
          LastN(tm_appended, Min(Len(tm_appended), tm_tabu_list_size))

\* an append onto a full memory of two entries has evicted the oldest entry,
\* which no entry kept repeats
C11_Witness ==
    /\ tm_tabu_list_size = 2
    /\ Len(tm_appended) >= 3
    /\ Len(tm_tabu_list) = 2
    /\ tm_appended[1] \notin Range(tm_tabu_list)
    /\ tm_tabu_list[1] # tm_tabu_list[2]

(***************************************************************************)
(* The selection operators.  A generation is a sequence of Candidate       *)
(* objects; a parent is the index of the object in the generation, 0 for   *)
(* None.  The Candidate class defines no __eq__, so the code's             *)
(* parent2 == parent1 compares object identity, which is index equality.   *)
(* A draw that raises an exception yields Raised.                          *)
(***************************************************************************)
Raised == 0 - 1

\* generations hold 2..MaxPopulation candidates
MaxPopulation == 4
\* stored fitness values range over -1..MaxFitness
MaxFitness == 1

FitnessRange == (0 - 1)..MaxFitness

\* the generations modelled: every fitness vector; the chromosomes are
\* pairwise different, or the first two candidates carry the same genes
Generations ==
    {[i \in 1..n |-> Candidate(IF duplicate /\ i = 2 THEN <<1>> ELSE <<i>>, fitness[i])] :
        <<n, fitness, duplicate>> \in
            UNION {{<<n, f, d>> : f \in [1..n -> FitnessRange], d \in BOOLEAN} :
                       n \in 2..MaxPopulation}}

SelectionOperators ==
    {"roulette_wheel_selection", "rank_based_selection", "tournament_selection",
     "stochastic_universal_sampling", "truncation_selection", "elitism_selection"}

\* tournament_size: up to one more than the largest generation
TournamentSizes == 1..(MaxPopulation + 1)

\* num_parents of stochastic_universal_sampling
NumParents == 2..3

\* truncation_percentage and elite_fraction: 1/4, 1/2, 1
Fractions == {Float(1, 0 - 2), Float(1, 0 - 1), FromInt(1)}

\* a Python int as an exact number
Exact(n) == [m |-> n, e |-> 0]

\* int(x) of a float: truncation toward zero
IntTrunc(x) ==
    IF x.e >= 0 THEN x.m * Pow2(x.e)
    ELSE IF x.m >= 0 THEN x.m \div Pow2(0 - x.e)
    ELSE 0 - ((0 - x.m) \div Pow2(0 - x.e))

\* sum(candidate.fitness for candidate in generation)
RECURSIVE TotalFitness(_)
TotalFitness(generation) ==
    IF generation = <<>> THEN 0
    ELSE Head(generation).fitness + TotalFitness(Tail(generation))

\* sorted(generation, key = fitness): the indices in ascending order of
\* fitness; the sort is stable
RankedGeneration(generation) ==
    LET n == Len(generation)
        before(i) == Cardinality({j \in 1..n :
                        \/ generation[j].fitness < generation[i].fitness
                        \/ generation[j].fitness = generation[i].fitness /\ j < i})
    IN  [k \in 1..n |-> CHOOSE i \in 1..n : before(i) = k - 1]

\* sorted(generation, key = fitness, reverse = True): descending, stable
SortedGeneration(generation) ==
    LET n == Len(generation)
        before(i) == Cardinality({j \in 1..n :
                        \/ generation[j].fitness > generation[i].fitness
                        \/ generation[j].fitness = generation[i].fitness /\ j < i})
    IN  [k \in 1..n |-> CHOOSE i \in 1..n : before(i) = k - 1]

\* roulette_wheel_selection.select_one, lines 283-289: the first candidate at
\* which the running sum exceeds pick, None when the loop falls through
RouletteWalkIgnoresPick(generation, i, current, pick) == i

RECURSIVE RouletteWalk(_, _, _, _)
RouletteWalk(generation, i, current, pick) ==
    IF i > Len(generation) THEN 0
    ELSE IF FLess(pick, Exact(current + generation[i].fitness)) THEN i
    ELSE RouletteWalk(generation, i + 1, current + generation[i].fitness, pick)

\* the results of one call of select_one, over the draws of line 284
RouletteSelectOne(generation) ==
    {RouletteWalk(generation, 1, 0, Uniform(FZero, FromInt(TotalFitness(generation)), u)) :
        u \in RandomUnit}

\* rank_based_selection.select_one, lines 313-319
RECURSIVE RankWalk(_, _, _, _)
RankWalk(ranked_generation, i, current, pick) ==
    IF i > Len(ranked_generation) THEN 0
    ELSE IF FLess(pick, Exact(current + i)) THEN ranked_generation[i]
    ELSE RankWalk(ranked_generation, i + 1, current + i, pick)

\* line 311: sum(range(1, len(ranked_generation) + 1))
TotalRanks(generation) == (Len(generation) * (Len(generation) + 1)) \div 2

RankSelectOne(generation) ==
    {RankWalk(RankedGeneration(generation), 1, 0,
              Uniform(FZero, FromInt(TotalRanks(generation)), u)) : u \in RandomUnit}

\* random.sample(generation, tournament_size): the sequences of
\* tournament_size different members
Samples(generation, tournament_size) ==
    {t \in [1..tournament_size -> 1..Len(generation)] :
        \A i, j \in 1..tournament_size : i # j => t[i] # t[j]}

\* max(tournament, key = fitness): the first member of maximum fitness
FirstMax(generation, tournament) ==
    LET best == CHOOSE k \in 1..Len(tournament) :
                   /\ \A j \in 1..Len(tournament) :
                         generation[tournament[j]].fitness <= generation[tournament[k]].fitness
                   /\ \A j \in 1..(k - 1) :
                         generation[tournament[j]].fitness < generation[tournament[k]].fitness
    IN  tournament[best]

\* tournament_selection.select_one, lines 337-341; random.sample raises
\* ValueError when tournament_size exceeds the generation
TournamentSelectOne(generation, tournament_size) ==
    IF tournament_size > Len(generation) THEN {Raised}
    ELSE {FirstMax(generation, t) : t \in Samples(generation, tournament_size)}

\* lines 387-388 and 411-412: the head of the descending generation
TruncationSize(generation, truncation_percentage) ==
    IntTrunc(FMul(truncation_percentage, FromInt(Len(generation))))

EliteSize(generation, elite_fraction) ==
    Max(1, IntTrunc(FMul(elite_fraction, FromInt(Len(generation)))))

\* random.choice of the first size members of the descending generation;
\* random.choice of an empty list raises IndexError
ChoiceOfTop(generation, size) ==
    IF size <= 0 THEN {Raised}
    ELSE {SortedGeneration(generation)[k] : k \in 1..Min(size, Len(generation))}

\* stochastic_universal_sampling, lines 366-370: the pass over the generation
\* from candidate i on, and the inner while loop at candidate i
RECURSIVE SUSPass(_, _, _, _, _, _, _)
RECURSIVE SUSWhile(_, _, _, _, _, _, _)
SUSPass(generation, i, cumulative_fitness, current_point, parents, pointer_spacing, num_parents) ==
    IF i > Len(generation) THEN parents
    ELSE SUSWhile(generation, i, cumulative_fitness + generation[i].fitness,
                  current_point, parents, pointer_spacing, num_parents)

SUSWhile(generation, i, cumulative_fitness, current_point, parents, pointer_spacing, num_parents) ==
    IF FLess(current_point, Exact(cumulative_fitness)) /\ Len(parents) < num_parents
    THEN SUSWhile(generation, i, cumulative_fitness,
                  FAdd(current_point, pointer_spacing), Append(parents, i),
                  pointer_spacing, num_parents)
    ELSE SUSPass(generation, i + 1, cumulative_fitness, current_point, parents,
                 pointer_spacing, num_parents)

\* line 359: pointer_spacing = total_fitness / num_parents
PointerSpacing(generation, num_parents) ==
    FDiv(Exact(TotalFitness(generation)), Exact(num_parents))

\* lines 358-370: the parents list for the draw u of line 360
SUSParents(generation, num_parents, u) ==
    SUSPass(generation, 1, 0,
            Uniform(FZero, PointerSpacing(generation, num_parents), u),
            <<>>, PointerSpacing(generation, num_parents), num_parents)

\* one call of the operator's select_one (roulette, rank, tournament) or of
\* random.choice (truncation, elitism): the parents it can yield
SelectOne(operator, generation, tournament_size, fraction) ==
    CASE operator = "roulette_wheel_selection" -> RouletteSelectOne(generation)
      [] operator = "rank_based_selection"     -> RankSelectOne(generation)
      [] operator = "tournament_selection"     ->
             TournamentSelectOne(generation, tournament_size)
      [] operator = "truncation_selection"     ->
             ChoiceOfTop(generation, TruncationSize(generation, fraction))
      [] operator = "elitism_selection"        ->
             ChoiceOfTop(generation, EliteSize(generation, fraction))

\* the operators with a loop "while parent2 == parent1" (lines 294, 393)
ResamplesEqualParents(operator) ==
    operator \in {"roulette_wheel_selection", "truncation_selection"}

\* the call of a selection operator on a generation
SelInit ==
    /\ HCIdle /\ SAIdle /\ TSIdle /\ OpIdle /\ TMIdle
    /\ sel_operator \in SelectionOperators
    /\ sel_generation \in Generations
    /\ sel_tournament_size \in
          IF sel_operator = "tournament_selection" THEN TournamentSizes ELSE {0}
    /\ sel_num_parents \in
          IF sel_operator = "stochastic_universal_sampling" THEN NumParents ELSE {0}
    /\ sel_fraction \in
          IF sel_operator \in {"truncation_selection", "elitism_selection"}
          THEN Fractions ELSE {FZero}
    /\ sel_parent1 = 0
    /\ sel_parent2 = 0
    /\ sel_parents = <<>>
    /\ sel_outcome = "running"
    /\ sel_random_state = FALSE
    /\ sel_pc = "parent1"

\* parent1 = select_one() / random.choice(...): lines 292, 322, 344, 391, 415
SelectParent1 ==
    /\ sel_pc = "parent1"
    /\ sel_operator # "stochastic_universal_sampling"
    /\ \E r \in SelectOne(sel_operator, sel_generation, sel_tournament_size, sel_fraction) :
          IF r = Raised
          THEN /\ sel_pc' = "done"
               /\ sel_outcome' = "error"
               /\ UNCHANGED sel_parent1
          ELSE /\ sel_pc' = "parent2"
               /\ sel_parent1' = r
               /\ UNCHANGED sel_outcome
    /\ UNCHANGED <<sel_operator, sel_generation, sel_tournament_size,
                   sel_num_parents, sel_fraction, sel_parent2, sel_parents>>
    /\ sel_random_state' = ~sel_random_state
    /\ UNCHANGED <<hcVars, saVars, tsVars, opVars, tmVars>>

\* parent2 = select_one() / random.choice(...): lines 293, 323, 345, 392, 416
SelectParent2 ==
    /\ sel_pc = "parent2"
    /\ \E r \in SelectOne(sel_operator, sel_generation, sel_tournament_size, sel_fraction) :
          IF r = Raised
          THEN /\ sel_pc' = "done"
               /\ sel_outcome' = "error"
               /\ UNCHANGED sel_parent2
          ELSE /\ sel_pc' = "check"
               /\ sel_parent2' = r
               /\ UNCHANGED sel_outcome
    /\ UNCHANGED <<sel_operator, sel_generation, sel_tournament_size,
                   sel_num_parents, sel_fraction, sel_parent1, sel_parents>>
    /\ sel_random_state' = ~sel_random_state
    /\ UNCHANGED <<hcVars, saVars, tsVars, opVars, tmVars>>

\* one turn of "while parent2 == parent1: parent2 = ...", lines 294-295 and
\* 393-394
ResampleParent2 ==
    /\ sel_pc = "check"
    /\ ResamplesEqualParents(sel_operator)
    /\ sel_parent2 = sel_parent1
    /\ \E r \in SelectOne(sel_operator, sel_generation, sel_tournament_size, sel_fraction) :
          sel_parent2' = r
    /\ UNCHANGED <<sel_pc, sel_operator, sel_generation, sel_tournament_size,
                   sel_num_parents, sel_fraction, sel_parent1, sel_parents,
                   sel_outcome>>
    /\ sel_random_state' = ~sel_random_state
    /\ UNCHANGED <<hcVars, saVars, tsVars, opVars, tmVars>>

\* return parent1, parent2: lines 297, 325, 347, 396, 418
SelectionReturn ==
    /\ sel_pc = "check"
    /\ ~(ResamplesEqualParents(sel_operator) /\ sel_parent2 = sel_parent1)
    /\ sel_pc' = "done"
    /\ sel_outcome' = "returned"
    /\ UNCHANGED <<sel_operator, sel_generation, sel_tournament_size,
                   sel_num_parents, sel_fraction, sel_parent1, sel_parent2,
                   sel_parents, sel_random_state>>
    /\ UNCHANGED <<hcVars, saVars, tsVars, opVars, tmVars>>

\* stochastic_universal_sampling, lines 358-372; parents[0], parents[1]
\* raises IndexError when fewer than two parents were collected
StochasticUniversalSampling ==
    /\ sel_pc = "parent1"
    /\ sel_operator = "stochastic_universal_sampling"
    /\ \E u \in RandomUnit :
          LET parents == SUSParents(sel_generation, sel_num_parents, u)
          IN  /\ sel_parents' = parents
              /\ IF Len(parents) < 2
                 THEN /\ sel_outcome' = "error"
                      /\ UNCHANGED <<sel_parent1, sel_parent2>>
                 ELSE /\ sel_outcome' = "returned"
                      /\ sel_parent1' = parents[1]
                      /\ sel_parent2' = parents[2]
    /\ sel_pc' = "done"
    /\ UNCHANGED <<sel_operator, sel_generation, sel_tournament_size,
                   sel_num_parents, sel_fraction>>
    /\ sel_random_state' = ~sel_random_state
    /\ UNCHANGED <<hcVars, saVars, tsVars, opVars, tmVars>>

SelNext ==
    \/ SelectParent1
    \/ SelectParent2
    \/ ResampleParent2
    \/ SelectionReturn
    \/ StochasticUniversalSampling

SpecSel == SelInit /\ [][SelNext]_vars

SelReturned == sel_pc = "done" /\ sel_outcome = "returned"

\* value equality of two parents: both None, or candidates of equal chromosome
SameCandidate(generation, parent1, parent2) ==
    IF parent1 = 0 \/ parent2 = 0 THEN parent1 = parent2
    ELSE generation[parent1].chromosome = generation[parent2].chromosome

AllPositive(generation) == \A i \in 1..Len(generation) : generation[i].fitness > 0

\* C5: on a generation of at least two candidates of positive fitness, the
\* selection operators other than elitism_selection never return two parents
\* that are the same candidate (equal chromosomes).
C5_DistinctParents ==
    (/\ SelReturned
     /\ sel_operator # "elitism_selection"
     /\ Len(sel_generation) >= 2
     /\ AllPositive(sel_generation))
        => ~SameCandidate(sel_generation, sel_parent1, sel_parent2)

\* C6: with total_fitness > 0 and num_parents >= 2, the pass of
\* stochastic_universal_sampling collects exactly num_parents parents.
C6_SUSCollectsNumParents ==
    (/\ sel_pc = "done"
     /\ sel_operator = "stochastic_universal_sampling"
     /\ TotalFitness(sel_generation) > 0
     /\ sel_num_parents >= 2)
        => Len(sel_parents) = sel_num_parents

\* C10: roulette_wheel_selection, rank_based_selection and
\* stochastic_universal_sampling called on a generation whose total fitness
\* is zero or negative end in an error: they never return.
C10_NonPositiveTotalRejected ==
    (/\ sel_operator \in {"roulette_wheel_selection", "rank_based_selection",
                          "stochastic_universal_sampling"}
     /\ TotalFitness(sel_generation) <= 0
     /\ sel_pc = "done")
        => sel_outcome = "error"

(***************************************************************************)
(* roulette_wheel_selection as one synchronous call under fair draws       *)
(***************************************************************************)
RouletteInit == SelInit /\ sel_operator = "roulette_wheel_selection"

RouletteNext ==
    \/ SelectParent1
    \/ SelectParent2
    \/ ResampleParent2
    \/ SelectionReturn

\* a turn of the loop of lines 294-295 whose draw is another candidate
ResampleDistinct == ResampleParent2 /\ sel_parent2' # sel_parent1

\* the states in which SelectParent1, SelectParent2, ResampleParent2 and
\* ResampleDistinct can be executed
SelectParent1Enabled == sel_pc = "parent1"

SelectParent2Enabled == sel_pc = "parent2"

ResampleParent2Enabled == sel_pc = "check" /\ sel_parent2 = sel_parent1

ResampleDistinctEnabled ==
    /\ ResampleParent2Enabled
    /\ \E r \in RouletteSelectOne(sel_generation) : r # sel_parent1

\* Every statement of the call is executed when it is reached (weak
\* fairness), and a result select_one can give again and again is
\* eventually drawn (strong fairness of the draw of another candidate).
\* The fairness of the actions that draw is written with their enabling
\* conditions as the state predicates above.
SpecRouletteFair ==
    /\ RouletteInit
    /\ [][RouletteNext]_vars
    /\ WF_vars(SelectionReturn)
    /\ ([]<>(~SelectParent1Enabled) \/ []<><<SelectParent1>>_vars)
    /\ ([]<>(~SelectParent2Enabled) \/ []<><<SelectParent2>>_vars)
    /\ ([]<>(~ResampleParent2Enabled) \/ []<><<ResampleParent2>>_vars)
    /\ (<>[](~ResampleDistinctEnabled) \/ []<><<ResampleDistinct>>_vars)

\* the generations of total fitness > 0 whose fitness values are all >= 0
RouletteDefined ==
    {g \in Generations :
        TotalFitness(g) > 0 /\ \A i \in 1..Len(g) : g[i].fitness >= 0}

\* those in which at least two candidates have a positive fitness
RouletteTwoPositive ==
    {g \in RouletteDefined :
        \E i, j \in 1..Len(g) : i # j /\ g[i].fitness > 0 /\ g[j].fitness > 0}

\* the call returned two candidates of the generation
RouletteReturnsParents ==
    /\ SelReturned
    /\ sel_parent1 \in 1..Len(sel_generation)
    /\ sel_parent2 \in 1..Len(sel_generation)

MaxOpLen == 3
\* parents of arithmetic and blend crossover, whose offspring has float
\* genes, have 1..MaxRealLen integer genes
MaxRealLen == 2
\* parents of order_crossover have 2..MaxOrderLen genes
MaxOrderLen == 3

\* the genes of these parents: the least and the greatest of the domain
OpGenes == {0, MaxGene}

OpChromosomes == UNION {[1..n -> OpGenes] : n \in 1..MaxOpLen}

RealChromosomes == UNION {[1..n -> OpGenes] : n \in 1..MaxRealLen}

\* s is a sequence in which every value of 1..Len(s) occurs exactly once
IsPermutation(s) ==
    /\ Range(s) = 1..Len(s)
    /\ \A i, j \in 1..Len(s) : i # j => s[i] # s[j]

\* pairs of parents of order_crossover: parent1 a permutation of 1..n,
\* parent2 any sequence of n values of 1..n (a permutation, or one with
\* repeated and missing values)
OrderParents ==
    UNION {{p \in [1..n -> 1..n] : IsPermutation(p)} \X [1..n -> 1..n] :
              n \in 2..MaxOrderLen}

\* alpha of arithmetic_crossover and blend_crossover: 1/2 (the default), 1/4
Alphas == {Float(1, 0 - 1), Float(1, 0 - 2)}

\* the Python slice s[a:b] for 0 <= a, which clamps b to len(s)
Slice(s, a, b) == SubSeq(s, a + 1, Min(b, Len(s)))

\* sorted(S) of a set of integers
RECURSIVE SortedSeq(_)
SortedSeq(S) ==
    IF S = {} THEN <<>>
    ELSE LET least == CHOOSE x \in S : \A y \in S : x <= y
         IN  <<least>> \o SortedSeq(S \ {least})

\* sorted(random.sample(range(lo, hi), k)): the k-subsets of lo..hi-1 in
\* ascending order; random.sample raises ValueError when k exceeds the range
SortedSamples(lo, hi, k) ==
    {SortedSeq(S) : S \in {T \in SUBSET (lo..(hi - 1)) : Cardinality(T) = k}}

\* n_point_crossover, line 438: crossover_points + [length]
NPointBoundariesMutant(crossover_points, length) == crossover_points

NPointBoundaries(crossover_points, length) == Append(crossover_points, length)

\* n_point_crossover, lines 433-444: the loop over the boundaries
RECURSIVE NPointBuild(_, _, _, _, _, _)
NPointBuild(parent1, parent2, boundaries, prev_point, swap, offspring_chromosome) ==
    IF boundaries = <<>> THEN offspring_chromosome
    ELSE NPointBuild(parent1, parent2, Tail(boundaries), Head(boundaries), ~swap,
                     offspring_chromosome \o
                        Slice(IF swap THEN parent2 ELSE parent1,
                              prev_point, Head(boundaries)))

NPointOffspring(parent1, parent2, crossover_points) ==
    NPointBuild(parent1, parent2, NPointBoundaries(crossover_points, Len(parent1)),
                0, FALSE, <<>>)

\* uniform_crossover, lines 457-459: zip stops at the shorter parent; choice[i]
\* is 1 for gene1 and 2 for gene2
UniformOffspring(parent1, parent2, choice) ==
    [i \in 1..Min(Len(parent1), Len(parent2)) |->
        IF choice[i] = 1 THEN parent1[i] ELSE parent2[i]]

\* arithmetic_crossover, lines 472-474
ArithmeticGene(gene1, gene2, alpha) ==
    FAdd(FMul(alpha, FromInt(gene1)),
         FMul(FSub(FromInt(1), alpha), FromInt(gene2)))

ArithmeticOffspring(parent1, parent2, alpha) ==
    [i \in 1..Min(Len(parent1), Len(parent2)) |->
        ArithmeticGene(parent1[i], parent2[i], alpha)]

\* blend_crossover, lines 488-492, for the draw u of random.uniform
BlendGene(gene1, gene2, alpha, u) ==
    LET d == FMul(alpha, FromInt(Abs(gene1 - gene2)))
        lower_bound == FSub(FromInt(Min(gene1, gene2)), d)
        upper_bound == FAdd(FromInt(Max(gene1, gene2)), d)
    IN  Uniform(lower_bound, upper_bound, u)

BlendOffspring(parent1, parent2, alpha, draws) ==
    [i \in 1..Min(Len(parent1), Len(parent2)) |->
        BlendGene(parent1[i], parent2[i], alpha, draws[i])]

\* cut_and_splice_crossover, line 508
CutAndSpliceOffspring(parent1, parent2, cut_point1, cut_point2) ==
    Slice(parent1, 0, cut_point1) \o Slice(parent2, cut_point2, Len(parent2))

\* the None of order_crossover's offspring_chromosome
Hole == 0 - 2

\* order_crossover, lines 525-526
OrderSegment(parent1, start, end) ==
    [i \in 1..Len(parent1) |-> IF start < i /\ i <= end THEN parent1[i] ELSE Hole]

\* order_crossover, line 529: parent2's genes not in offspring_chromosome
OrderRemainingMutant(parent2, offspring_chromosome) == parent2

OrderRemaining(parent2, offspring_chromosome) ==
    SelectSeq(parent2, LAMBDA gene : gene \notin Range(offspring_chromosome))

\* order_crossover, lines 531-535: fill the holes from position i on;
\* raised when parent2_genes[idx] is out of range (IndexError)
RECURSIVE OrderFill(_, _, _, _)
OrderFill(offspring_chromosome, parent2_genes, i, idx) ==
    IF i > Len(offspring_chromosome)
    THEN [raised |-> FALSE, chromosome |-> offspring_chromosome]
    ELSE IF offspring_chromosome[i] # Hole
         THEN OrderFill(offspring_chromosome, parent2_genes, i + 1, idx)
    ELSE IF idx > Len(parent2_genes)
         THEN [raised |-> TRUE, chromosome |-> offspring_chromosome]
    ELSE OrderFill([offspring_chromosome EXCEPT ![i] = parent2_genes[idx]],
                   parent2_genes, i + 1, idx + 1)

OrderOffspring(parent1, parent2, start, end) ==
    OrderFill(OrderSegment(parent1, start, end),
              OrderRemaining(parent2, OrderSegment(parent1, start, end)), 1, 1)

\* swap_mutation, lines 624-628
SwapOffspring(chromosome, idx1, idx2) ==
    [chromosome EXCEPT ![idx1 + 1] = chromosome[idx2 + 1],
                       ![idx2 + 1] = chromosome[idx1 + 1]]

\* offspring_chromosome[start:end] = part, lines 648 and 666
SliceAssign(chromosome, start, end, part) ==
    Slice(chromosome, 0, start) \o part \o Slice(chromosome, end, Len(chromosome))

\* random.shuffle of a list: its rearrangements
Shuffles(part) ==
    {[i \in 1..Len(part) |-> part[perm[i]]] :
        perm \in {f \in [1..Len(part) -> 1..Len(part)] :
                     \A i, j \in 1..Len(part) : i # j => f[i] # f[j]}}

\* s[::-1]
Reverse(s) == [i \in 1..Len(s) |-> s[Len(s) + 1 - i]]

Crossovers ==
    {"n_point_crossover", "uniform_crossover", "arithmetic_crossover",
     "blend_crossover", "cut_and_splice_crossover", "order_crossover"}

Mutations == {"swap_mutation", "scramble_mutation", "inversion_mutation"}

\* the call of a crossover on two parents or of a mutation on a candidate
OpInit ==
    /\ HCIdle /\ SAIdle /\ TSIdle /\ SelIdle /\ TMIdle
    /\ op_operator \in Crossovers \cup Mutations
    /\ \E parents \in
             CASE op_operator \in {"arithmetic_crossover", "blend_crossover"} ->
                      RealChromosomes \X RealChromosomes
               [] op_operator = "order_crossover" -> OrderParents
               [] op_operator \in Mutations -> OpChromosomes \X {<<>>}
               [] OTHER -> OpChromosomes \X OpChromosomes :
          /\ op_parent1 = parents[1]
          /\ op_parent2 = parents[2]
    /\ op_n_points \in
          IF op_operator = "n_point_crossover" THEN 1..MaxOpLen ELSE {0}
    /\ op_alpha \in
          IF op_operator \in {"arithmetic_crossover", "blend_crossover"}
          THEN Alphas ELSE {FZero}
    /\ op_start = 0
    /\ op_end = 0
    /\ op_offspring = <<>>
    /\ op_outcome = "running"
    /\ op_pc = "call"

\* what a call leaves unchanged
OpFrame ==
    /\ UNCHANGED <<op_operator, op_parent1, op_parent2, op_n_points, op_alpha>>
    /\ UNCHANGED <<hcVars, saVars, tsVars, selVars, tmVars>>

OpReturns(offspring_chromosome) ==
    /\ op_pc' = "done"
    /\ op_outcome' = "returned"
    /\ op_offspring' = offspring_chromosome

\* an exception leaves the call
OpRaises ==
    /\ op_pc' = "done"
    /\ op_outcome' = "error"
    /\ op_offspring' = <<>>

\* n_point_crossover, lines 430-446
NPointCrossover ==
    /\ op_pc = "call"
    /\ op_operator = "n_point_crossover"
    /\ IF op_n_points > Len(op_parent1) - 1
       THEN OpRaises
       ELSE \E crossover_points \in SortedSamples(1, Len(op_parent1), op_n_points) :
               OpReturns(NPointOffspring(op_parent1, op_parent2, crossover_points))
    /\ UNCHANGED <<op_start, op_end>>
    /\ OpFrame

\* uniform_crossover, lines 457-460
UniformCrossover ==
    /\ op_pc = "call"
    /\ op_operator = "uniform_crossover"
    /\ \E choice \in [1..Min(Len(op_parent1), Len(op_parent2)) -> {1, 2}] :
          OpReturns(UniformOffspring(op_parent1, op_parent2, choice))
    /\ UNCHANGED <<op_start, op_end>>
    /\ OpFrame

\* arithmetic_crossover, lines 472-475
ArithmeticCrossover ==
    /\ op_pc = "call"
    /\ op_operator = "arithmetic_crossover"
    /\ OpReturns(ArithmeticOffspring(op_parent1, op_parent2, op_alpha))
    /\ UNCHANGED <<op_start, op_end>>
    /\ OpFrame

\* blend_crossover, lines 487-494
BlendCrossover ==
    /\ op_pc = "call"
    /\ op_operator = "blend_crossover"
    /\ \E draws \in [1..Min(Len(op_parent1), Len(op_parent2)) -> RandomUnit] :
          OpReturns(BlendOffspring(op_parent1, op_parent2, op_alpha, draws))
    /\ UNCHANGED <<op_start, op_end>>
    /\ OpFrame

\* cut_and_splice_crossover, lines 505-510
CutAndSpliceCrossover ==
    /\ op_pc = "call"
    /\ op_operator = "cut_and_splice_crossover"
    /\ \E cut_point1 \in 0..(Len(op_parent1) - 1), cut_point2 \in 0..(Len(op_parent2) - 1) :
          OpReturns(CutAndSpliceOffspring(op_parent1, op_parent2, cut_point1, cut_point2))
    /\ UNCHANGED <<op_start, op_end>>
    /\ OpFrame

\* order_crossover, lines 521-537
OrderCrossover ==
    /\ op_pc = "call"
    /\ op_operator = "order_crossover"
    /\ \E segment \in SortedSamples(0, Len(op_parent1), 2) :
          LET filled == OrderOffspring(op_parent1, op_parent2, segment[1], segment[2])
          IN  /\ op_start' = segment[1]
              /\ op_end' = segment[2]
              /\ IF filled.raised THEN OpRaises ELSE OpReturns(filled.chromosome)
    /\ OpFrame

\* swap_mutation, lines 624-630; random.sample(range(n), 2) raises
\* ValueError for n < 2
SwapMutation ==
    /\ op_pc = "call"
    /\ op_operator = "swap_mutation"
    /\ IF Len(op_parent1) < 2
       THEN OpRaises /\ UNCHANGED <<op_start, op_end>>
       ELSE \E idx1, idx2 \in 0..(Len(op_parent1) - 1) :
               /\ idx1 # idx2
               /\ op_start' = idx1
               /\ op_end' = idx2
               /\ OpReturns(SwapOffspring(op_parent1, idx1, idx2))
    /\ OpFrame

\* scramble_mutation, lines 640-650
ScrambleMutation ==
    /\ op_pc = "call"
    /\ op_operator = "scramble_mutation"
    /\ IF Len(op_parent1) < 2
       THEN OpRaises /\ UNCHANGED <<op_start, op_end>>
       ELSE \E segment \in SortedSamples(0, Len(op_parent1), 2) :
              \E scrambled_part \in Shuffles(Slice(op_parent1, segment[1], segment[2])) :
                 /\ op_start' = segment[1]
                 /\ op_end' = segment[2]
                 /\ OpReturns(SliceAssign(op_parent1, segment[1], segment[2],
                                          scrambled_part))
    /\ OpFrame

\* inversion_mutation, lines 660-668
InversionMutation ==
    /\ op_pc = "call"
    /\ op_operator = "inversion_mutation"
    /\ IF Len(op_parent1) < 2
       THEN OpRaises /\ UNCHANGED <<op_start, op_end>>
       ELSE \E segment \in SortedSamples(0, Len(op_parent1), 2) :
               /\ op_start' = segment[1]
               /\ op_end' = segment[2]
               /\ OpReturns(SliceAssign(op_parent1, segment[1], segment[2],
                               Reverse(Slice(op_parent1, segment[1], segment[2]))))
    /\ OpFrame

OpNext ==
    \/ NPointCrossover
    \/ UniformCrossover
    \/ ArithmeticCrossover
    \/ BlendCrossover
    \/ CutAndSpliceCrossover
    \/ OrderCrossover
    \/ SwapMutation
    \/ ScrambleMutation
    \/ InversionMutation

SpecOp == OpInit /\ [][OpNext]_vars

\* C7: when both parents of order_crossover are permutations of the same set
\* of distinct values, the call returns, and the offspring is a permutation
\* of that set (same length, no None, every value once) whose positions
\* start..end-1 hold parent1's genes.
C7_OrderCrossoverPermutation ==
    (/\ op_pc = "done"
     /\ op_operator = "order_crossover"
     /\ IsPermutation(op_parent1)
     /\ IsPermutation(op_parent2))
        => /\ op_outcome = "returned"
           /\ Len(op_offspring) = Len(op_parent1)
           /\ Hole \notin Range(op_offspring)
           /\ IsPermutation(op_offspring)
           /\ \A i \in (op_start + 1)..op_end : op_offspring[i] = op_parent1[i]

\* a returned order crossover of two different permutations of three values
\* in which parent2's order decided the offspring
C7_Witness ==
    /\ op_pc = "done"
    /\ op_operator = "order_crossover"
    /\ op_outcome = "returned"
    /\ IsPermutation(op_parent1)
    /\ IsPermutation(op_parent2)
    /\ Len(op_parent1) >= 3
    /\ op_offspring # op_parent1
    /\ op_offspring # op_parent2

\* C8: n_point_crossover (1 <= n_points < L), uniform_crossover,
\* arithmetic_crossover and blend_crossover of two parents of length L return
\* an offspring of length L, and swap_mutation, scramble_mutation and
\* inversion_mutation of a candidate of length L >= 2 return a candidate of
\* length L.
C8_LengthPreserved ==
    /\ (/\ op_pc = "done"
        /\ op_operator \in {"n_point_crossover", "uniform_crossover",
                            "arithmetic_crossover", "blend_crossover"}
        /\ Len(op_parent1) = Len(op_parent2)
        /\ op_operator = "n_point_crossover"
              => (1 <= op_n_points /\ op_n_points < Len(op_parent1)))
          => (op_outcome = "returned" /\ Len(op_offspring) = Len(op_parent1))
    /\ (/\ op_pc = "done"
        /\ op_operator \in Mutations
        /\ Len(op_parent1) >= 2)
          => (op_outcome = "returned" /\ Len(op_offspring) = Len(op_parent1))

\* a returned two-point crossover that took genes from both parents
C8_Witness ==
    /\ op_pc = "done"
    /\ op_operator = "n_point_crossover"
    /\ op_outcome = "returned"
    /\ op_n_points = 2
    /\ Len(op_parent1) = Len(op_parent2)
    /\ op_offspring # op_parent1
    /\ op_offspring # op_parent2

=============================================================================
